---- MODULE Spec2Model ----
(***************************************************************************)
(* PlatinaArchive-Web: the score ledger (DecodeResult.update_or_make       *)
(* behind /api/v1/update_archive), the ranking sums                        *)
(* (Decoder.get_top_50_patch_sum) and the progress job                     *)
(* (scripts/update_decoder_progress.py).                                   *)
(*                                                                         *)
(* Numbers live on the integer grid.  A JSON value of a request body is a  *)
(* record [t, v]: t is its Python type after request.get_json()            *)
(* ("int", "float", "bool", "str", "null") and v its numeric value (True   *)
(* is 1, as in Python, where bool is a subclass of int).                   *)
(***************************************************************************)
EXTENDS Integers, Sequences, FiniteSets, TLC

\* ------------------------------------------------------------------------
\* Bounds of the model
\* ------------------------------------------------------------------------
MaxCalls == 2
MaxRuns == 2
\* keys issued by register and login
MaxIssued == 3
\* songs with one 4-line EASY pattern each, enough of them to pass the limit
\* of the top-50 query
FillerSongs == 51

\* ------------------------------------------------------------------------
\* JSON values
\* ------------------------------------------------------------------------
JInt(n) == [t |-> "int", v |-> n]
JFloat(n) == [t |-> "float", v |-> n]
JBool(b) == [t |-> "bool", v |-> IF b THEN 1 ELSE 0]
JStr == [t |-> "str", v |-> 0]

\* isinstance(x, int): bool is a subclass of int
IsInstanceInt(x) == x.t \in {"int", "bool"}
IsInstanceFloat(x) == x.t = "float"
IsInstanceBool(x) == x.t = "bool"

\* the value a Float / Integer / Boolean column stores for a Python value
ToColumn(x) == x.v
ToBoolColumn(x) == x.v = 1

\* ------------------------------------------------------------------------
\* Catalog (PlatinaSongs, PlatinaPatterns): read-only reference data
\* ------------------------------------------------------------------------
PlatinaSong == {1, 2} \cup { 2 + i : i \in 1..FillerSongs }

Pattern(s, l, d, lv) == [song_id |-> s, line |-> l, difficulty |-> d, level |-> lv]

PlatinaPattern ==
    { Pattern(1, 4, "EASY", 3), Pattern(1, 4, "HARD", 5), Pattern(2, 6, "PLUS", 7),
      Pattern(2, 4, "EASY", 2), Pattern(2, 4, "OVER", 8), Pattern(2, 4, "PLUS", 9) }
        \cup { Pattern(2 + i, 4, "EASY", 1) : i \in 1..FillerSongs }

get_available_levels_AnyDifficulty(song, line, difficulty) ==
    { ptn.level : ptn \in { q \in PlatinaPattern :
                              /\ q.song_id = song
                              /\ q.line = line } }

get_available_levels(song, line, difficulty) ==
    { ptn.level : ptn \in { q \in PlatinaPattern :
                              /\ q.song_id = song
                              /\ q.line = line
                              /\ q.difficulty = difficulty } }

\* ------------------------------------------------------------------------
\* Credentials (Decoders table)
\* ------------------------------------------------------------------------
Sha256(secret) == <<"sha256", secret>>

\* werkzeug's generate_password_hash / check_password_hash (the salt is left out)
generate_password_hash(password) == <<"pbkdf2", password>>

check_password_hash(pwhash, password) == pwhash = generate_password_hash(password)

DecoderRow(n, s, p) ==
    [name |-> n, hashed_secret |-> Sha256(s), hashed_pass |-> generate_password_hash(p)]

InitDecoders == { DecoderRow("Ada", "sA", "pwA"), DecoderRow("Bob", "sB", "pwB") }

\* db.session.get(Decoder, name): the rows with that primary key
GetDecoder(decs, name) == { d \in decs : d.name = name }

\* a presented key is the list key.split("::") yields
load_by_key(decs, key) ==
    IF Len(key) # 2
    THEN [raised |-> TRUE, decoder |-> {}]
    ELSE LET name == key[1]
             given_hash == Sha256(key[2])
         IN [raised |-> FALSE,
             decoder |-> { d \in GetDecoder(decs, name) :
                             given_hash = d.hashed_secret }]

\* ------------------------------------------------------------------------
\* State
\* ------------------------------------------------------------------------
VARIABLES
    decoders,   \* Decoders table
    results,    \* DecodeResults table: a set of rows
    progress,   \* DecoderProgress table: a set of rows
    now,        \* the clock datetime.now(timezone.utc) reads
    ncalls,     \* update_archive requests so far
    nruns,      \* progress-job runs so far
    last,       \* the last update_archive request: inputs, locals, response
    jobTotals,  \* per decoder, the sums the last job run read
    req,        \* requests in flight (interleaved handlers)
    job,        \* per decoder, a progress-job run in flight
    query,      \* the last ranking query: arguments and what it returned
    issued      \* the keys handed to clients, in the order of issue

vars == <<decoders, results, progress, now, ncalls, nruns, last, jobTotals, req,
          job, query, issued>>

\* ------------------------------------------------------------------------
\* Requests: the JSON body of update_archive and the X-API-Key header
\* ------------------------------------------------------------------------
Params(s, l, d, lv, j, sc, pa, fc, mp) ==
    [song_id |-> s, line |-> l, difficulty |-> d, level |-> lv,
     judge |-> j, score |-> sc, patch |-> pa,
     is_full_combo |-> fc, is_max_patch |-> mp]

Payload(j, sc, pa, fc, mp) ==
    [judge |-> j, score |-> sc, patch |-> pa, is_full_combo |-> fc, is_max_patch |-> mp]

WithPayload(ptn, pay) ==
    Params(ptn.song_id, ptn.line, ptn.difficulty, ptn.level,
           pay.judge, pay.score, pay.patch, pay.is_full_combo, pay.is_max_patch)

PayA == Payload(JFloat(90), JInt(100), JFloat(20), JBool(FALSE), JBool(FALSE))
PayB == Payload(JFloat(90), JInt(200), JFloat(10), JBool(TRUE), JBool(FALSE))
PayC == Payload(JInt(100), JInt(50), JFloat(30), JBool(TRUE), JBool(TRUE))
\* boundary values; a JSON true is an int to isinstance
PayD == Payload(JInt(0), JBool(TRUE), JInt(0), JBool(FALSE), JBool(FALSE))

Chart1 == Pattern(1, 4, "EASY", 3)
Chart2 == Pattern(1, 4, "HARD", 5)
Chart3 == Pattern(2, 6, "PLUS", 7)

ValidParams ==
    { WithPayload(Chart1, pay) : pay \in {PayA, PayB, PayC, PayD} }
        \cup { WithPayload(Chart2, PayB), WithPayload(Chart3, PayA) }

BaseParams == WithPayload(Chart1, PayA)

\* one defect each
SingleDefects ==
    { [BaseParams EXCEPT !.song_id = 99],
      [BaseParams EXCEPT !.line = 5],
      [BaseParams EXCEPT !.difficulty = "NORMAL"],
      [BaseParams EXCEPT !.level = 9],
      [BaseParams EXCEPT !.difficulty = "PLUS"],
      [BaseParams EXCEPT !.judge = JInt(-1)],
      [BaseParams EXCEPT !.judge = JInt(101)],
      [BaseParams EXCEPT !.judge = JStr],
      [BaseParams EXCEPT !.score = JInt(-1)],
      [BaseParams EXCEPT !.score = JFloat(100)],
      [BaseParams EXCEPT !.patch = JFloat(-1)],
      [BaseParams EXCEPT !.is_full_combo = JInt(1)] }

\* every field from the k-th on is bad
BadFrom(k) ==
    Params(IF k <= 1 THEN 99 ELSE 1,
           IF k <= 2 THEN 5 ELSE 4,
           IF k <= 3 THEN "NORMAL" ELSE "EASY",
           IF k <= 4 THEN 9 ELSE 3,
           IF k <= 5 THEN JInt(101) ELSE JFloat(90),
           IF k <= 6 THEN JInt(-1) ELSE JInt(100),
           IF k <= 7 THEN JFloat(-1) ELSE JFloat(20),
           IF k <= 8 THEN JStr ELSE JBool(FALSE),
           JInt(0))

InvalidParams == SingleDefects \cup { BadFrom(k) : k \in 1..9 }

AdaKey == <<"Ada", "sA">>
BobKey == <<"Bob", "sB">>

\* wrong secret, another player's secret, unknown player, the v1 default
\* "::", no separator, two separators
BadKeys == { <<"Ada", "zz">>, <<"Ada", "sB">>, <<"Eve", "sA">>, <<"", "">>,
             <<"Ada">>, <<"Ada", "sA", "x">> }

Request(key, p) == [key |-> key, params |-> p]

\* requests that reach update_or_make
ValidRequests ==
    { Request(AdaKey, p) : p \in ValidParams }
        \cup { Request(BobKey, WithPayload(Chart1, PayA)) }

\* requests that are answered before update_or_make
RejectedRequests ==
    { Request(AdaKey, p) : p \in InvalidParams }
        \cup { Request(key, BaseParams) : key \in BadKeys }

Requests == ValidRequests \cup RejectedRequests

\* ------------------------------------------------------------------------
\* _update_db_archive: the checks before the write
\* ------------------------------------------------------------------------
Resp(status, msg) == [status |-> status, msg |-> msg]

Passed == Resp(0, "passed")

\* not (isinstance(judge, float) or isinstance(judge, int)) or judge < 0 or judge > 100
JudgeInvalid_NoUpperBound(judge) ==
    \/ ~(IsInstanceFloat(judge) \/ IsInstanceInt(judge))
    \/ judge.v < 0

JudgeInvalid(judge) ==
    \/ ~(IsInstanceFloat(judge) \/ IsInstanceInt(judge))
    \/ judge.v < 0
    \/ judge.v > 100

ScoreInvalid(score) == ~IsInstanceInt(score) \/ score.v < 0

PatchInvalid(patch) == ~(IsInstanceFloat(patch) \/ IsInstanceInt(patch)) \/ patch.v < 0

Validate_LevelBeforeDifficulty(p) ==
    IF p.song_id \notin PlatinaSong THEN Resp(404, "Unknown song ID")
    ELSE IF p.line \notin {4, 6} THEN Resp(400, "Invalid line value")
    ELSE IF p.level \notin get_available_levels(p.song_id, p.line, p.difficulty)
        THEN Resp(400, "Invalid level value")
    ELSE IF p.difficulty \notin {"EASY", "HARD", "OVER", "PLUS"}
        THEN Resp(400, "Invalid difficulty value")
    ELSE IF JudgeInvalid(p.judge) THEN Resp(400, "Invalid judge value")
    ELSE IF ScoreInvalid(p.score) THEN Resp(400, "Invalid score value")
    ELSE IF PatchInvalid(p.patch) THEN Resp(400, "Invalid P.A.T.C.H. value")
    ELSE IF ~IsInstanceBool(p.is_full_combo)
        THEN Resp(400, "Invalid is_full_combo value")
    ELSE IF ~IsInstanceBool(p.is_max_patch)
        THEN Resp(400, "Invalid is_max_patch value")
    ELSE Passed

Validate(p) ==
    IF p.song_id \notin PlatinaSong THEN Resp(404, "Unknown song ID")
    ELSE IF p.line \notin {4, 6} THEN Resp(400, "Invalid line value")
    ELSE IF p.difficulty \notin {"EASY", "HARD", "OVER", "PLUS"}
        THEN Resp(400, "Invalid difficulty value")
    ELSE IF p.level \notin get_available_levels(p.song_id, p.line, p.difficulty)
        THEN Resp(400, "Invalid level value")
    ELSE IF JudgeInvalid(p.judge) THEN Resp(400, "Invalid judge value")
    ELSE IF ScoreInvalid(p.score) THEN Resp(400, "Invalid score value")
    ELSE IF PatchInvalid(p.patch) THEN Resp(400, "Invalid P.A.T.C.H. value")
    ELSE IF ~IsInstanceBool(p.is_full_combo)
        THEN Resp(400, "Invalid is_full_combo value")
    ELSE IF ~IsInstanceBool(p.is_max_patch)
        THEN Resp(400, "Invalid is_max_patch value")
    ELSE Passed

\* the response before update_or_make is reached; Passed when it is reached.
\* key.split("::") raising ValueError is an unhandled exception: a 500.
PreCheck(decs, key, p) ==
    LET auth == load_by_key(decs, key)
    IN IF auth.raised THEN Resp(500, "Internal Server Error")
       ELSE IF auth.decoder = {} THEN Resp(401, "Invalid API key")
       ELSE Validate(p)

\* ------------------------------------------------------------------------
\* DecodeResult rows and update_or_make
\* ------------------------------------------------------------------------
SamePK(r, decoder, p) ==
    /\ r.decoder = decoder
    /\ r.song_id = p.song_id
    /\ r.line = p.line
    /\ r.difficulty = p.difficulty
    /\ r.level = p.level

\* db.session.get(DecodeResult, (decoder, song_id, line, difficulty, level))
GetArchive(db, decoder, p) == { r \in db : SamePK(r, decoder, p) }

NewArchive(decoder, p, utc_now) ==
    [decoder |-> decoder, song_id |-> p.song_id, line |-> p.line,
     difficulty |-> p.difficulty, level |-> p.level,
     judge |-> ToColumn(p.judge), score |-> ToColumn(p.score),
     patch |-> ToColumn(p.patch), decoded_at |-> utc_now,
     is_full_combo |-> ToBoolColumn(p.is_full_combo),
     is_max_patch |-> ToBoolColumn(p.is_max_patch),
     old_judge |-> 0, old_score |-> 0, old_patch |-> 0,
     old_is_full_combo |-> FALSE, old_is_max_patch |-> FALSE]

\* the shadow copy taken after the overwrite
UpdateExisting_ShadowAfter(e, p, utc_now) ==
    [e EXCEPT !.decoded_at = utc_now,
              !.judge = ToColumn(p.judge),
              !.score = ToColumn(p.score),
              !.patch = ToColumn(p.patch),
              !.is_full_combo = ToBoolColumn(p.is_full_combo),
              !.is_max_patch = ToBoolColumn(p.is_max_patch),
              !.old_judge = ToColumn(p.judge),
              !.old_score = ToColumn(p.score),
              !.old_patch = ToColumn(p.patch),
              !.old_is_full_combo = ToBoolColumn(p.is_full_combo),
              !.old_is_max_patch = ToBoolColumn(p.is_max_patch)]

\* the overwrite gated by the judge-then-score comparison
UpdateExisting_BestOnly(e, p, utc_now) ==
    IF \/ p.judge.v > e.judge
       \/ p.judge.v = e.judge /\ p.score.v > e.score
    THEN [e EXCEPT !.old_judge = e.judge,
                   !.old_score = e.score,
                   !.old_patch = e.patch,
                   !.old_is_full_combo = e.is_full_combo,
                   !.old_is_max_patch = e.is_max_patch,
                   !.decoded_at = utc_now,
                   !.judge = ToColumn(p.judge),
                   !.score = ToColumn(p.score),
                   !.patch = ToColumn(p.patch),
                   !.is_full_combo = ToBoolColumn(p.is_full_combo),
                   !.is_max_patch = ToBoolColumn(p.is_max_patch)]
    ELSE e

UpdateExisting(e, p, utc_now) ==
    [e EXCEPT !.old_judge = e.judge,
              !.old_score = e.score,
              !.old_patch = e.patch,
              !.old_is_full_combo = e.is_full_combo,
              !.old_is_max_patch = e.is_max_patch,
              !.decoded_at = utc_now,
              !.judge = ToColumn(p.judge),
              !.score = ToColumn(p.score),
              !.patch = ToColumn(p.patch),
              !.is_full_combo = ToBoolColumn(p.is_full_combo),
              !.is_max_patch = ToBoolColumn(p.is_max_patch)]

\* the object update_or_make hands to the session
MakeArchive(existing, decoder, p, utc_now) ==
    IF existing = {} THEN NewArchive(decoder, p, utc_now)
    ELSE UpdateExisting(CHOOSE e \in existing : TRUE, p, utc_now)

\* two rows with the same (decoder, songID, line, difficulty, level)
SameRowPK(r, row) ==
    /\ r.decoder = row.decoder
    /\ r.song_id = row.song_id
    /\ r.line = row.line
    /\ r.difficulty = row.difficulty
    /\ r.level = row.level

PrimaryKeyFree_Unchecked(db, row) == TRUE

\* the composite primary key of DecodeResults admits the INSERT
PrimaryKeyFree(db, row) == ~\E r \in db : SameRowPK(r, row)

\* the unit of work writes the columns whose value differs from the loaded one
Dirty(cur, loaded, obj) ==
    [cur EXCEPT
       !.judge = IF obj.judge # loaded.judge THEN obj.judge ELSE cur.judge,
       !.score = IF obj.score # loaded.score THEN obj.score ELSE cur.score,
       !.patch = IF obj.patch # loaded.patch THEN obj.patch ELSE cur.patch,
       !.decoded_at = IF obj.decoded_at # loaded.decoded_at
                      THEN obj.decoded_at ELSE cur.decoded_at,
       !.is_full_combo = IF obj.is_full_combo # loaded.is_full_combo
                         THEN obj.is_full_combo ELSE cur.is_full_combo,
       !.is_max_patch = IF obj.is_max_patch # loaded.is_max_patch
                        THEN obj.is_max_patch ELSE cur.is_max_patch,
       !.old_judge = IF obj.old_judge # loaded.old_judge
                     THEN obj.old_judge ELSE cur.old_judge,
       !.old_score = IF obj.old_score # loaded.old_score
                     THEN obj.old_score ELSE cur.old_score,
       !.old_patch = IF obj.old_patch # loaded.old_patch
                     THEN obj.old_patch ELSE cur.old_patch,
       !.old_is_full_combo = IF obj.old_is_full_combo # loaded.old_is_full_combo
                             THEN obj.old_is_full_combo ELSE cur.old_is_full_combo,
       !.old_is_max_patch = IF obj.old_is_max_patch # loaded.old_is_max_patch
                            THEN obj.old_is_max_patch ELSE cur.old_is_max_patch]

\* db.session.commit() can succeed: an INSERT needs a free primary key
CanCommit(db, existing, obj) == existing # {} \/ PrimaryKeyFree(db, obj)

Commit_AnyDecoder(db, existing, obj) ==
    IF existing = {} THEN db \cup {obj}
    ELSE LET loaded == CHOOSE e \in existing : TRUE
             hit == { r \in db : /\ r.song_id = obj.song_id
                                 /\ r.line = obj.line
                                 /\ r.difficulty = obj.difficulty
                                 /\ r.level = obj.level }
         IN (db \ hit) \cup { Dirty(cur, loaded, obj) : cur \in hit }

\* the table after a successful commit: INSERT of a new object, or UPDATE of
\* the row with the object's primary key
Commit(db, existing, obj) ==
    IF existing = {} THEN db \cup {obj}
    ELSE LET loaded == CHOOSE e \in existing : TRUE
             hit == { r \in db : SameRowPK(r, obj) }
         IN (db \ hit) \cup { Dirty(cur, loaded, obj) : cur \in hit }

TryCommit_NoRollback(db, existing, obj, ok) == Commit(db, existing, obj)

\* try: db.session.commit() / except Exception: db.session.rollback()
TryCommit(db, existing, obj, ok) ==
    IF ok THEN Commit(db, existing, obj) ELSE db

\* ------------------------------------------------------------------------
\* Ranking sums and the progress job
\* ------------------------------------------------------------------------
Top50Limit == 50

LineLabels == <<"4L", "4L+", "6L", "6L+">>

LabelLine(label) == IF label \in {"4L", "4L+"} THEN 4 ELSE 6

LabelIsPlus(label) == label \in {"4L+", "6L+"}

PatchFilter_AnyDifficulty(db, name, line, is_plus) ==
    { r \in db : r.decoder = name /\ r.line = line }

\* the rows get_top_50_patch_results selects from
PatchFilter(db, name, line, is_plus) ==
    { r \in db : /\ r.decoder = name
                 /\ r.line = line
                 /\ IF is_plus THEN r.difficulty = "PLUS" ELSE r.difficulty # "PLUS" }

\* sum of patch over the first n rows of S in descending patch order
RECURSIVE SumTopPatch(_, _)
SumTopPatch(S, n) ==
    IF S = {} \/ n = 0 THEN 0
    ELSE LET top == CHOOSE r \in S : \A q \in S : q.patch <= r.patch
         IN top.patch + SumTopPatch(S \ {top}, n - 1)

\* ORDER BY patch DESC names no second key: among rows of equal patch the
\* server returns them in the order its plan meets them.  A scan order ranks
\* the rows; three such orders stand for the server's freedom.
ScanOrders == {"asc", "desc", "odd"}

ChartNo(r) == r.song_id * 100 + r.level

ScanPos(ord, r) ==
    CASE ord = "asc" -> ChartNo(r)
      [] ord = "desc" -> 0 - ChartNo(r)
      [] OTHER -> IF ChartNo(r) % 2 = 1 THEN ChartNo(r) ELSE 100000 + ChartNo(r)

\* .order_by(desc(DecodeResult.patch))
RECURSIVE OrderByPatchDesc(_, _)
OrderByPatchDesc(S, ord) ==
    IF S = {} THEN <<>>
    ELSE LET top == CHOOSE r \in S : \A q \in S \ {r} :
                        \/ q.patch < r.patch
                        \/ q.patch = r.patch /\ ScanPos(ord, r) < ScanPos(ord, q)
         IN <<top>> \o OrderByPatchDesc(S \ {top}, ord)

\* .limit(n)
Limit(rows, n) == SubSeq(rows, 1, IF Len(rows) < n THEN Len(rows) ELSE n)

get_top_50_patch_sum(db, name, line, is_plus) ==
    SumTopPatch(PatchFilter(db, name, line, is_plus), Top50Limit)

get_top_50_patch_results(db, name, line, is_plus, ord) ==
    Limit(OrderByPatchDesc(PatchFilter(db, name, line, is_plus), ord), Top50Limit)

RECURSIVE SumPatch(_)
SumPatch(rows) ==
    IF rows = <<>> THEN 0 ELSE Head(rows).patch + SumPatch(Tail(rows))

DecoderEmblem == <<"bit", "nibble", "Byte", "deca", "hecto", "kilo", "Mega",
                   "Giga", "Tera", "Peta", "Exa", "Zeta", "Yotta">>

EmblemOf_BoundaryBelow(total_patch) ==
    IF total_patch <= 5000 THEN "bit"
    ELSE IF total_patch <= 10000 THEN "nibble"
    ELSE IF total_patch <= 15000 THEN "Byte"
    ELSE IF total_patch <= 20000 THEN "deca"
    ELSE IF total_patch <= 25000 THEN "hecto"
    ELSE IF total_patch <= 30000 THEN "kilo"
    ELSE IF total_patch <= 35000 THEN "Mega"
    ELSE IF total_patch <= 40000 THEN "Giga"
    ELSE IF total_patch <= 45000 THEN "Tera"
    ELSE IF total_patch <= 50000 THEN "Peta"
    ELSE IF total_patch <= 55000 THEN "Exa"
    ELSE IF total_patch <= 60000 THEN "Zeta"
    ELSE "Yotta"

\* the if / elif chain of calculate_emblem
EmblemOf(total_patch) ==
    IF total_patch < 5000 THEN "bit"
    ELSE IF total_patch < 10000 THEN "nibble"
    ELSE IF total_patch < 15000 THEN "Byte"
    ELSE IF total_patch < 20000 THEN "deca"
    ELSE IF total_patch < 25000 THEN "hecto"
    ELSE IF total_patch < 30000 THEN "kilo"
    ELSE IF total_patch < 35000 THEN "Mega"
    ELSE IF total_patch < 40000 THEN "Giga"
    ELSE IF total_patch < 45000 THEN "Tera"
    ELSE IF total_patch < 50000 THEN "Peta"
    ELSE IF total_patch < 55000 THEN "Exa"
    ELSE IF total_patch < 60000 THEN "Zeta"
    ELSE "Yotta"

calculate_emblem(db, name, line, is_plus, ord) ==
    LET total_patch == SumPatch(get_top_50_patch_results(db, name, line, is_plus, ord))
    IN <<total_patch, EmblemOf(total_patch)>>

get_status_TotalIgnoresLine(db, name, line, is_plus) ==
    LET cleared == { r \in db : /\ r.decoder = name
                                /\ r.line = line
                                /\ IF is_plus THEN r.difficulty = "PLUS"
                                   ELSE r.difficulty # "PLUS" }
        patterns == { ptn \in PlatinaPattern :
                         IF is_plus THEN ptn.difficulty = "PLUS"
                         ELSE ptn.difficulty # "PLUS" }
    IN [decoder |-> name, line |-> line, is_plus |-> is_plus,
        total_patterns |-> Cardinality(patterns),
        cleared_patterns |-> Cardinality(cleared),
        full_combo_patterns |-> Cardinality({ r \in cleared : r.is_full_combo }),
        perfect_decode_patterns |-> Cardinality({ r \in cleared : r.judge = 100 }),
        max_patch_patterns |-> Cardinality({ r \in cleared : r.is_max_patch })]

\* the five counts of get_status
get_status(db, name, line, is_plus) ==
    LET cleared == { r \in db : /\ r.decoder = name
                                /\ r.line = line
                                /\ IF is_plus THEN r.difficulty = "PLUS"
                                   ELSE r.difficulty # "PLUS" }
        patterns == { ptn \in PlatinaPattern :
                         /\ ptn.line = line
                         /\ IF is_plus THEN ptn.difficulty = "PLUS"
                            ELSE ptn.difficulty # "PLUS" }
    IN [decoder |-> name, line |-> line, is_plus |-> is_plus,
        total_patterns |-> Cardinality(patterns),
        cleared_patterns |-> Cardinality(cleared),
        full_combo_patterns |-> Cardinality({ r \in cleared : r.is_full_combo }),
        perfect_decode_patterns |-> Cardinality({ r \in cleared : r.judge = 100 }),
        max_patch_patterns |-> Cardinality({ r \in cleared : r.is_max_patch })]

\* the first row in descending recorded_at order, if any
get_latest_progress(prog, name, label) ==
    LET mine == { g \in prog : g.decoder = name /\ g.line = label }
    IN { g \in mine : \A h \in mine : h.recorded_at <= g.recorded_at }

CurrentTotals(db, name) ==
    [label \in {"4L", "4L+", "6L", "6L+"} |->
        get_top_50_patch_sum(db, name, LabelLine(label), LabelIsPlus(label))]

NeedsSnapshot_AnyChange(prog, name, label, total) ==
    LET latest == get_latest_progress(prog, name, label)
    IN latest = {} \/ \E g \in latest : g.total # total

NeedsSnapshot_NotStrict(prog, name, label, total) ==
    LET latest == get_latest_progress(prog, name, label)
    IN latest = {} \/ \E g \in latest : g.total <= total

\* db_x is None or db_x.total < current_x_total
NeedsSnapshot(prog, name, label, total) ==
    LET latest == get_latest_progress(prog, name, label)
    IN latest = {} \/ \E g \in latest : g.total < total

\* the rows one run adds for the sums it read: each row reads the clock in
\* its turn
SnapshotsFor(prog, name, totals, clock) ==
    LET needed(i) == NeedsSnapshot(prog, name, LineLabels[i], totals[LineLabels[i]])
        before(i) == Cardinality({ k \in 1..(i - 1) : needed(k) })
    IN { [decoder |-> name, line |-> LineLabels[i],
          total |-> totals[LineLabels[i]], recorded_at |-> clock + before(i)]
         : i \in { k \in 1..4 : needed(k) } }

NewSnapshots(prog, db, name, clock) ==
    SnapshotsFor(prog, name, CurrentTotals(db, name), clock)

\* ------------------------------------------------------------------------
\* Initial state
\* ------------------------------------------------------------------------
Slots == {1, 2}

NoQuery == [fn |-> "none", name |-> "", line |-> 0, is_plus |-> FALSE,
            rows |-> <<>>, total |-> 0, emblem |-> ""]

NoRequest ==
    [pc |-> "idle", key |-> <<>>, params |-> BaseParams, decoder |-> {},
     existing |-> {}, utc_now |-> 0, status |-> 0, msg |-> ""]

Init ==
    /\ decoders = InitDecoders
    /\ results = {}
    /\ progress = {}
    /\ now = 1
    /\ ncalls = 0
    /\ nruns = 0
    /\ last = NoRequest
    /\ jobTotals = [name \in {"Ada", "Bob"} |-> {}]
    /\ req = [r \in Slots |-> NoRequest]
    /\ job = [name \in {"Ada", "Bob"} |-> {}]
    /\ query = NoQuery
    /\ issued = <<>>

\* ------------------------------------------------------------------------
\* update_archive -> _update_db_archive -> update_or_make, one request at a
\* time
\* ------------------------------------------------------------------------
AuthName(decs, key) == { d.name : d \in load_by_key(decs, key).decoder }

update_archive(key, p, storage_ok) ==
    LET pre == PreCheck(decoders, key, p)
    IN IF pre # Passed
       THEN /\ ncalls < MaxCalls
            /\ ncalls' = ncalls + 1
            /\ last' = [NoRequest EXCEPT !.pc = "done", !.key = key, !.params = p,
                                         !.decoder = IF load_by_key(decoders, key).raised
                                                     THEN {} ELSE AuthName(decoders, key),
                                         !.status = pre.status, !.msg = pre.msg]
            /\ UNCHANGED <<decoders, results, progress, now, nruns, jobTotals, req, job, query, issued>>
       ELSE /\ ncalls < MaxCalls
            /\ LET name == CHOOSE n \in AuthName(decoders, key) : TRUE
                   existing == GetArchive(results, name, p)
                   obj == MakeArchive(existing, name, p, now)
                   ok == storage_ok /\ CanCommit(results, existing, obj)
               IN /\ results' = TryCommit(results, existing, obj, ok)
                  /\ last' = [pc |-> "done", key |-> key, params |-> p,
                              decoder |-> {name}, existing |-> existing,
                              utc_now |-> now,
                              status |-> IF ok THEN 200 ELSE 500,
                              msg |-> IF ok THEN "success" ELSE "failed"]
            /\ now' = now + 1
            /\ ncalls' = ncalls + 1
            /\ UNCHANGED <<decoders, progress, nruns, jobTotals, req, job, query, issued>>

\* ------------------------------------------------------------------------
\* update_decoder_progress(decoder), one run for one decoder
\* ------------------------------------------------------------------------
update_decoder_progress(name) ==
    /\ nruns < MaxRuns
    /\ GetDecoder(decoders, name) # {}
    /\ LET rows == NewSnapshots(progress, results, name, now)
       IN /\ progress' = progress \cup rows
          /\ now' = now + Cardinality(rows)
    /\ jobTotals' = [jobTotals EXCEPT ![name] = {CurrentTotals(results, name)}]
    /\ nruns' = nruns + 1
    /\ UNCHANGED <<decoders, results, ncalls, last, req, job, query, issued>>

\* ------------------------------------------------------------------------
\* Specification: requests and job runs one at a time
\* ------------------------------------------------------------------------
Submit ==
    \E rq \in Requests, storage_ok \in BOOLEAN :
        update_archive(rq.key, rq.params, storage_ok)

RunJob == \E name \in {"Ada", "Bob"} : update_decoder_progress(name)

Next == Submit \/ RunJob

Spec == Init /\ [][Next]_vars

\* ------------------------------------------------------------------------
\* Specification: two update_archive requests served at the same time.
\* Each handler reads (load_by_key, the checks, db.session.get, the clock)
\* and later writes and commits; the other handler may run in between.
\* ------------------------------------------------------------------------
MaxRaceCalls == 3

update_archive_read(r, key, p) ==
    LET pre == PreCheck(decoders, key, p)
    IN /\ req[r].pc # "read"
       /\ ncalls < MaxRaceCalls
       /\ ncalls' = ncalls + 1
       /\ IF pre # Passed
          THEN /\ req' = [req EXCEPT ![r] =
                            [NoRequest EXCEPT !.pc = "done", !.key = key, !.params = p,
                                              !.decoder = IF load_by_key(decoders, key).raised
                                                          THEN {} ELSE AuthName(decoders, key),
                                              !.status = pre.status, !.msg = pre.msg]]
               /\ now' = now
          ELSE LET name == CHOOSE n \in AuthName(decoders, key) : TRUE
               IN /\ req' = [req EXCEPT ![r] =
                               [pc |-> "read", key |-> key, params |-> p,
                                decoder |-> {name},
                                existing |-> GetArchive(results, name, p),
                                utc_now |-> now, status |-> 0, msg |-> ""]]
                  /\ now' = now + 1
       /\ UNCHANGED <<decoders, results, progress, nruns, last, jobTotals, job, query, issued>>

update_archive_commit(r, storage_ok) ==
    /\ req[r].pc = "read"
    /\ LET name == CHOOSE n \in req[r].decoder : TRUE
           obj == MakeArchive(req[r].existing, name, req[r].params, req[r].utc_now)
           ok == storage_ok /\ CanCommit(results, req[r].existing, obj)
       IN /\ results' = TryCommit(results, req[r].existing, obj, ok)
          /\ req' = [req EXCEPT ![r].pc = "done",
                                ![r].status = IF ok THEN 200 ELSE 500,
                                ![r].msg = IF ok THEN "success" ELSE "failed"]
    /\ UNCHANGED <<decoders, progress, now, ncalls, nruns, last, jobTotals, job, query, issued>>

RaceRead == \E r \in Slots, rq \in Requests : update_archive_read(r, rq.key, rq.params)

RaceCommit == \E r \in Slots, storage_ok \in BOOLEAN : update_archive_commit(r, storage_ok)

NextRace == RaceRead \/ RaceCommit

SpecRace == Init /\ [][NextRace]_vars

\* ------------------------------------------------------------------------
\* Properties of the score ledger
\* ------------------------------------------------------------------------
CurrentOf(r) ==
    <<r.judge, r.score, r.patch, r.is_full_combo, r.is_max_patch>>

ShadowOf(r) ==
    <<r.old_judge, r.old_score, r.old_patch, r.old_is_full_combo, r.old_is_max_patch>>

SubmittedOf(p) ==
    <<p.judge.v, p.score.v, p.patch.v, p.is_full_combo.v = 1, p.is_max_patch.v = 1>>

\* the submission beats the stored record: judge first, then score
Improves(p, e) ==
    \/ p.judge.v > e.judge
    \/ p.judge.v = e.judge /\ p.score.v > e.score

\* this step is an update_archive request that update_or_make committed
AcceptedStep == ncalls' = ncalls + 1 /\ last'.status = 200

\* the stored rows of the request's (player, chart) before and after the step
RowsBefore == UNION { GetArchive(results, name, last'.params) : name \in last'.decoder }
RowsAfter == UNION { GetArchive(results', name, last'.params) : name \in last'.decoder }

\* C1: a committed submission that improves on the stored record of its
\* chart (higher judge, or equal judge and higher score) leaves the submitted
\* values as the current fields and the values stored just before the call
\* as the shadow fields.
C1_ImprovingSubmissionReplaces ==
    [][AcceptedStep =>
         \A e \in RowsBefore :
            Improves(last'.params, e) =>
               /\ RowsAfter # {}
               /\ \A r \in RowsAfter :
                     /\ CurrentOf(r) = SubmittedOf(last'.params)
                     /\ ShadowOf(r) = CurrentOf(e)]_vars

\* an improving submission has just overwritten a record
C1_Witness ==
    /\ last.status = 200
    /\ \E e \in last.existing : Improves(last.params, e)
    /\ \E r \in results : r.decoded_at = last.utc_now /\ r.old_judge > 0

\* C2: a committed submission that does not improve on the stored record
\* (lower judge, or equal judge and score not higher) leaves the record's
\* judge, score, patch and flags as they were.
C2_NonImprovingLeavesRecord ==
    [][AcceptedStep =>
         \A e \in RowsBefore :
            ~Improves(last'.params, e) =>
               \A r \in RowsAfter : CurrentOf(r) = CurrentOf(e)]_vars

\* C3: a committed submission for a chart with a stored record overwrites it
\* whether or not it is better (shadow fields take the previous current
\* values, current fields the submitted ones); the first submission for a
\* chart creates the record with zero / false shadow fields.
C3_AlwaysOverwrite ==
    [][AcceptedStep =>
         /\ Cardinality(RowsAfter) = 1
         /\ \A r \in RowsAfter :
               /\ CurrentOf(r) = SubmittedOf(last'.params)
               /\ \A e \in RowsBefore : ShadowOf(r) = CurrentOf(e)
               /\ RowsBefore = {} => ShadowOf(r) = <<0, 0, 0, FALSE, FALSE>>]_vars

\* a submission that is no better than the stored record has overwritten it
C3_Witness ==
    /\ last.status = 200
    /\ \E e \in last.existing :
          /\ ~Improves(last.params, e)
          /\ CurrentOf(e) # SubmittedOf(last.params)
          /\ \E r \in results : /\ r.decoded_at = last.utc_now
                                /\ ShadowOf(r) = CurrentOf(e)

\* C4: the same result committed twice in a row for the same player and
\* chart: the second call leaves the shadow fields as the first left them.
C4_ResubmissionKeepsShadow ==
    [][(/\ AcceptedStep
        /\ last.status = 200
        /\ last'.key = last.key
        /\ last'.params = last.params) =>
         \A e \in RowsBefore : \A r \in RowsAfter : ShadowOf(r) = ShadowOf(e)]_vars

\* ------------------------------------------------------------------------
\* Properties of the checks before the write
\* ------------------------------------------------------------------------
\* a JSON value Python takes for a number (True and False are the ints 1, 0)
IsNumber(x) == x.t \in {"int", "float", "bool"}
IsInteger(x) == x.t \in {"int", "bool"}

\* the presented key names a stored player and carries that player's secret
KeyVerifies(key) ==
    /\ Len(key) = 2
    /\ \E d \in decoders : d.name = key[1] /\ d.hashed_secret = Sha256(key[2])

\* the k-th of the nine requirements on a submission is not met
FieldDefect(k, p) ==
    CASE k = 1 -> p.song_id \notin PlatinaSong
      [] k = 2 -> p.line \notin {4, 6}
      [] k = 3 -> p.difficulty \notin {"EASY", "HARD", "OVER", "PLUS"}
      [] k = 4 -> Pattern(p.song_id, p.line, p.difficulty, p.level) \notin PlatinaPattern
      [] k = 5 -> ~IsNumber(p.judge) \/ p.judge.v < 0 \/ p.judge.v > 100
      [] k = 6 -> ~IsInteger(p.score) \/ p.score.v < 0
      [] k = 7 -> ~IsNumber(p.patch) \/ p.patch.v < 0
      [] k = 8 -> p.is_full_combo.t # "bool"
      [] k = 9 -> p.is_max_patch.t # "bool"

\* the first requirement not met, 10 when all nine are met
FirstFailing(p) ==
    IF \E k \in 1..9 : FieldDefect(k, p)
    THEN CHOOSE k \in 1..9 : FieldDefect(k, p) /\ \A j \in 1..(k - 1) : ~FieldDefect(j, p)
    ELSE 10

Reasons ==
    << Resp(404, "Unknown song ID"),
       Resp(400, "Invalid line value"),
       Resp(400, "Invalid difficulty value"),
       Resp(400, "Invalid level value"),
       Resp(400, "Invalid judge value"),
       Resp(400, "Invalid score value"),
       Resp(400, "Invalid P.A.T.C.H. value"),
       Resp(400, "Invalid is_full_combo value"),
       Resp(400, "Invalid is_max_patch value") >>

\* C5: a request whose key does not verify, or whose body misses one of the
\* nine requirements, leaves the DecodeResults table as it was.
C5_RejectedSubmissionMutatesNothing ==
    [][(/\ ncalls' = ncalls + 1
        /\ \/ ~KeyVerifies(last'.key)
           \/ \E k \in 1..9 : FieldDefect(k, last'.params)) =>
         results' = results]_vars

\* a defective request has been answered while records were stored
C5_Witness ==
    /\ results # {}
    /\ last.pc = "done"
    /\ last.status \in {400, 401, 404}
    /\ \/ ~KeyVerifies(last.key)
       \/ \E k \in 1..9 : FieldDefect(k, last.params)

\* C6: for a request whose key verifies, the response is the reason of the
\* first requirement not met, in the order song, line, difficulty, level,
\* judge, score, patch, is_full_combo, is_max_patch; the nine reasons are
\* pairwise distinct and only the unknown song is a 404; update_or_make runs
\* exactly when all nine are met.
C6_FirstFailingCheckDecides ==
    (last.pc = "done" /\ KeyVerifies(last.key)) =>
        LET k == FirstFailing(last.params)
        IN /\ k <= 9 => Resp(last.status, last.msg) = Reasons[k]
           /\ k = 10 <=> last.utc_now # 0
           /\ last.utc_now # 0 => last.msg \in {"success", "failed"}
           /\ \A i, j \in 1..9 : i # j => Reasons[i].msg # Reasons[j].msg
           /\ \A i \in 1..9 : Reasons[i].status = IF i = 1 THEN 404 ELSE 400

\* a request missing several requirements has been answered
C6_Witness ==
    /\ last.pc = "done"
    /\ KeyVerifies(last.key)
    /\ \E k \in 2..8 : /\ FirstFailing(last.params) = k
                       /\ FieldDefect(k + 1, last.params)
                       /\ Resp(last.status, last.msg) = Reasons[k]

\* ------------------------------------------------------------------------
\* Invariants of the DecodeResults table
\* ------------------------------------------------------------------------
\* C7: at most one stored record per (player, song id, line, difficulty,
\* level), also when requests for the same chart overlap.
C7_OneRecordPerChart ==
    \A r1, r2 \in results : SameRowPK(r1, r2) => r1 = r2

\* two overlapping first submissions for one chart have both been answered
C7_Witness ==
    /\ req[1].pc = "done" /\ req[2].pc = "done"
    /\ req[1].utc_now # 0 /\ req[2].utc_now # 0
    /\ req[1].existing = {} /\ req[2].existing = {}
    /\ req[1].decoder = req[2].decoder
    /\ \A name \in req[1].decoder :
          /\ GetArchive(results, name, req[1].params) # {}
          /\ GetArchive(results, name, req[1].params)
                = GetArchive(results, name, req[2].params)
    /\ {req[1].status, req[2].status} = {200, 500}

\* the (song, line) pairs of the catalog without a PLUS pattern
PlusFree ==
    { sl \in PlatinaSong \X {4, 6} :
        ~\E ptn \in PlatinaPattern :
            ptn.song_id = sl[1] /\ ptn.line = sl[2] /\ ptn.difficulty = "PLUS" }

PlusFreeHasNoLevels ==
    \A sl \in PlusFree : get_available_levels(sl[1], sl[2], "PLUS") = {}

\* C8: every stored record references a song of the catalog and a pattern
\* of the catalog for its (song, line, difficulty, level); where a song and
\* line have no PLUS pattern, available_levels is empty and no PLUS record
\* is stored.
C8_ResultsReferenceCatalog ==
    /\ \A r \in results :
          /\ r.song_id \in PlatinaSong
          /\ Pattern(r.song_id, r.line, r.difficulty, r.level) \in PlatinaPattern
    /\ PlusFreeHasNoLevels
    /\ \A r \in results : r.difficulty = "PLUS" => <<r.song_id, r.line>> \notin PlusFree

\* a PLUS submission for a song and line without PLUS pattern was rejected
C8_Witness ==
    /\ results # {}
    /\ last.pc = "done"
    /\ KeyVerifies(last.key)
    /\ last.params.difficulty = "PLUS"
    /\ ~\E ptn \in PlatinaPattern : /\ ptn.song_id = last.params.song_id
                                    /\ ptn.line = last.params.line
                                    /\ ptn.difficulty = "PLUS"
    /\ Resp(last.status, last.msg) = Resp(400, "Invalid level value")

\* ------------------------------------------------------------------------
\* Overlapping submissions
\* ------------------------------------------------------------------------
\* the record after p1 and then p2 are applied, one after the other, to e
SerialOutcome(e, p1, p2) == UpdateExisting(UpdateExisting(e, p1, 0), p2, 0)

\* C9: two submissions for the same player and chart that both read the
\* stored record before either committed, and both committed: the stored
\* record, shadow fields included, is the one a serial order of the two
\* produces, and it is the only record of the chart.
C9_NoLostUpdate ==
    (/\ req[1].pc = "done" /\ req[2].pc = "done"
     /\ req[1].status = 200 /\ req[2].status = 200
     /\ req[1].decoder = req[2].decoder
     /\ req[1].existing = req[2].existing
     /\ req[1].existing # {}) =>
        \A e \in req[1].existing :
           LET rows == { r \in results : SameRowPK(r, e) }
               s12 == SerialOutcome(e, req[1].params, req[2].params)
               s21 == SerialOutcome(e, req[2].params, req[1].params)
           IN /\ Cardinality(rows) = 1
              /\ \A r \in rows :
                    \/ CurrentOf(r) = CurrentOf(s12) /\ ShadowOf(r) = ShadowOf(s12)
                    \/ CurrentOf(r) = CurrentOf(s21) /\ ShadowOf(r) = ShadowOf(s21)

\* ------------------------------------------------------------------------
\* The sums the progress job reads
\* ------------------------------------------------------------------------
\* C10: for every player and line label, the top-50 patch sum a run of the
\* progress job reads is at least the sum the player's previous run read.
C10_SumReadNeverDecreases ==
    [][\A name \in DOMAIN jobTotals :
          \A before \in jobTotals[name] : \A after \in jobTotals'[name] :
             \A label \in DOMAIN before : after[label] >= before[label]]_vars

\* ------------------------------------------------------------------------
\* Specification: the progress job in two steps (it reads the four sums,
\* then reads the latest snapshots and appends), submissions in between,
\* and the job run again and again for every decoder
\* ------------------------------------------------------------------------
update_decoder_progress_sums(name) ==
    /\ job[name] = {}
    /\ GetDecoder(decoders, name) # {}
    /\ job' = [job EXCEPT ![name] = {CurrentTotals(results, name)}]
    /\ UNCHANGED <<decoders, results, progress, now, ncalls, nruns, last, jobTotals,
                   req, query, issued>>

update_decoder_progress_append(name) ==
    /\ job[name] # {}
    /\ LET totals == CHOOSE t \in job[name] : TRUE
           rows == SnapshotsFor(progress, name, totals, now)
       IN /\ progress' = progress \cup rows
          /\ now' = now + Cardinality(rows)
    /\ jobTotals' = [jobTotals EXCEPT ![name] = job[name]]
    /\ job' = [job EXCEPT ![name] = {}]
    /\ UNCHANGED <<decoders, results, ncalls, nruns, last, req, query, issued>>

LiveSubmit ==
    \E rq \in ValidRequests, storage_ok \in BOOLEAN :
        update_archive(rq.key, rq.params, storage_ok)

JobSums == \E name \in {"Ada", "Bob"} : update_decoder_progress_sums(name)

JobAppend == \E name \in {"Ada", "Bob"} : update_decoder_progress_append(name)

NextLive == LiveSubmit \/ JobSums \/ JobAppend

SpecLive ==
    /\ Init
    /\ [][NextLive]_vars
    /\ \A name \in {"Ada", "Bob"} :
          /\ WF_vars(update_decoder_progress_sums(name))
          /\ WF_vars(update_decoder_progress_append(name))

\* ------------------------------------------------------------------------
\* Specification: the ranking queries over stored tables.  A table is a set
\* of rows update_or_make has stored, one per chart: tables with ties among
\* up to four 4-line charts, tables with more than 50 matching rows, and
\* tables whose sum falls on and just below the emblem thresholds.
\* ------------------------------------------------------------------------
RankRow(name, ptn, patch) ==
    NewArchive(name, WithPayload(ptn, Payload(JInt(100), JInt(1), JInt(patch),
                                              JBool(FALSE), JBool(FALSE))), 1)

\* rows of another difficulty class, another line and another player
OtherRows ==
    { RankRow("Ada", Pattern(2, 4, "PLUS", 9), 30), RankRow("Ada", Chart3, 30),
      RankRow("Bob", Chart1, 30) }

SmallCharts == <<Chart1, Chart2, Pattern(2, 4, "EASY", 2), Pattern(2, 4, "OVER", 8)>>

TieTables ==
    { OtherRows \cup { RankRow("Ada", SmallCharts[i], f[i]) : i \in { k \in 1..4 : f[k] # 0 } }
      : f \in [1..4 -> {0, 10, 20}] }

FillerRows == { RankRow("Ada", Pattern(2 + i, 4, "EASY", 1), 10) : i \in 1..FillerSongs }

BigTables ==
    { OtherRows \cup FillerRows \cup extra
      : extra \in { {}, {RankRow("Ada", Chart1, 5)}, {RankRow("Ada", Chart1, 10)},
                    {RankRow("Ada", Chart1, 20)} } }

BoundaryTotals == { k * 5000 - 1 : k \in 1..13 } \cup { k * 5000 : k \in 1..13 }

BoundaryTables ==
    { OtherRows \cup {RankRow("Ada", Chart1, t - e)}
                \cup (IF e > 0 THEN {RankRow("Ada", Chart2, e)} ELSE {})
      : t \in BoundaryTotals, e \in {0, 1} }

RankTables == TieTables \cup BigTables \cup BoundaryTables

InitRank ==
    /\ results \in RankTables
    /\ decoders = InitDecoders
    /\ progress = {}
    /\ now = 2
    /\ ncalls = 0
    /\ nruns = 0
    /\ last = NoRequest
    /\ jobTotals = [name \in {"Ada", "Bob"} |-> {}]
    /\ req = [r \in Slots |-> NoRequest]
    /\ job = [name \in {"Ada", "Bob"} |-> {}]
    /\ query = NoQuery
    /\ issued = <<>>

top_50_patch(name, line, is_plus, ord) ==
    /\ GetDecoder(decoders, name) # {}
    /\ query' = [fn |-> "top", name |-> name, line |-> line, is_plus |-> is_plus,
                 rows |-> get_top_50_patch_results(results, name, line, is_plus, ord),
                 total |-> get_top_50_patch_sum(results, name, line, is_plus),
                 emblem |-> ""]
    /\ UNCHANGED <<decoders, results, progress, now, ncalls, nruns, last, jobTotals,
                   req, job, issued>>

emblem(name, line, is_plus, ord) ==
    /\ GetDecoder(decoders, name) # {}
    /\ LET e == calculate_emblem(results, name, line, is_plus, ord)
       IN query' = [fn |-> "emblem", name |-> name, line |-> line, is_plus |-> is_plus,
                    rows |-> <<>>, total |-> e[1], emblem |-> e[2]]
    /\ UNCHANGED <<decoders, results, progress, now, ncalls, nruns, last, jobTotals,
                   req, job, issued>>

QueryTop50 ==
    \E name \in {"Ada", "Bob"}, line \in {4, 6}, is_plus \in BOOLEAN, ord \in ScanOrders :
        top_50_patch(name, line, is_plus, ord)

QueryEmblem ==
    \E name \in {"Ada", "Bob"}, line \in {4, 6}, is_plus \in BOOLEAN, ord \in ScanOrders :
        emblem(name, line, is_plus, ord)

NextRank == QueryTop50 \/ QueryEmblem

SpecRank == InitRank /\ [][NextRank]_vars

\* ------------------------------------------------------------------------
\* Specification: register, login and key verification on an empty Decoders
\* table.  secrets.token_urlsafe(64) draws 512 random bits: every secret
\* issued is one that was never issued before.
\* ------------------------------------------------------------------------
SecretPool == <<"k1", "k2", "k3", "k4", "k5", "k6">>

\* the secret secrets.token_urlsafe(64) returns after n earlier draws
FreshSecret(n) == SecretPool[n + 1]

Passwords == {"pwA", "pwB"}

\* register_decoder takes the name from the JSON body as it comes
AuthNames == {"Ada", "Bob", "a::b"}

\* name.split("::") for the names of the model
SplitName(name) == IF name = "a::b" THEN <<"a", "b">> ELSE <<name>>

\* f"{name}::{secret}", as the list split("::") yields for it
FormatKey(name, secret) == SplitName(name) \o <<secret>>

\* Decoder.register: None (the empty set) for a taken name
register(decs, name, password, secret) ==
    IF GetDecoder(decs, name) # {}
    THEN [decoders |-> decs, result |-> {}]
    ELSE [decoders |-> decs \cup {DecoderRow(name, secret, password)},
          result |-> {FormatKey(name, secret)}]

\* Decoder.make_new_secret: a new secret, its digest stored in place of the
\* old one, the key name::secret returned
make_new_secret(decs, d, secret) ==
    [decoders |-> (decs \ {d}) \cup {[d EXCEPT !.hashed_secret = Sha256(secret)]},
     key |-> FormatKey(d.name, secret)]

InitAuth ==
    /\ decoders = {}
    /\ results = {}
    /\ progress = {}
    /\ now = 1
    /\ ncalls = 0
    /\ nruns = 0
    /\ last = NoRequest
    /\ jobTotals = [name \in {"Ada", "Bob"} |-> {}]
    /\ req = [r \in Slots |-> NoRequest]
    /\ job = [name \in {"Ada", "Bob"} |-> {}]
    /\ query = NoQuery
    /\ issued = <<>>

register_decoder(name, password) ==
    /\ Len(issued) < MaxIssued
    /\ LET reg == register(decoders, name, password, FreshSecret(Len(issued)))
       IN IF reg.result = {}
          THEN /\ last' = [NoRequest EXCEPT !.pc = "register", !.status = 400,
                                            !.msg = "Name already taken",
                                            !.decoder = {name}]
               /\ UNCHANGED <<decoders, issued>>
          ELSE LET key == CHOOSE k \in reg.result : TRUE
               IN /\ decoders' = reg.decoders
                  /\ issued' = Append(issued, [name |-> name, key |-> key])
                  /\ last' = [NoRequest EXCEPT !.pc = "register", !.status = 200,
                                               !.key = key, !.decoder = {name}]
    /\ UNCHANGED <<results, progress, now, ncalls, nruns, jobTotals, req, job, query>>

\* POST /api/v1/login; the 401 message is the Korean for "login failed"
login(name, password) ==
    /\ Len(issued) < MaxIssued
    /\ LET found == { d \in GetDecoder(decoders, name) :
                        check_password_hash(d.hashed_pass, password) }
       IN IF found = {}
          THEN /\ last' = [NoRequest EXCEPT !.pc = "login", !.status = 401,
                                            !.msg = "login failed"]
               /\ UNCHANGED <<decoders, issued>>
          ELSE LET d == CHOOSE x \in found : TRUE
                   new == make_new_secret(decoders, d, FreshSecret(Len(issued)))
               IN /\ decoders' = new.decoders
                  /\ issued' = Append(issued, [name |-> name, key |-> new.key])
                  /\ last' = [NoRequest EXCEPT !.pc = "login", !.status = 200,
                                               !.msg = "success", !.key = new.key,
                                               !.decoder = {name}]
    /\ UNCHANGED <<results, progress, now, ncalls, nruns, jobTotals, req, job, query>>

\* POST /api/v1/get_archive: the key check of _get_archive
get_archive(key) ==
    /\ LET auth == load_by_key(decoders, key)
       IN last' = [NoRequest EXCEPT
                     !.pc = "get_archive", !.key = key,
                     !.decoder = { d.name : d \in auth.decoder },
                     !.status = IF auth.raised THEN 500
                                ELSE IF auth.decoder = {} THEN 401 ELSE 200,
                     !.msg = IF auth.raised THEN "Internal Server Error"
                             ELSE IF auth.decoder = {} THEN "Invalid API key" ELSE ""]
    /\ UNCHANGED <<decoders, results, progress, now, ncalls, nruns, jobTotals, req,
                   job, query, issued>>

Register == \E name \in AuthNames, password \in Passwords : register_decoder(name, password)

Login == \E name \in AuthNames, password \in Passwords : login(name, password)

Verify ==
    \E key \in { issued[i].key : i \in 1..Len(issued) } \cup {<<"Ada", "zz">>, <<"Ada">>} :
        get_archive(key)

NextAuth == Register \/ Login \/ Verify

SpecAuth == InitAuth /\ [][NextAuth]_vars

\* ------------------------------------------------------------------------
\* Specification: submissions that reach update_or_make, each commit failing
\* or not, over an empty ledger and over a ledger with one stored record
\* ------------------------------------------------------------------------
StoredRecord == RankRow("Ada", Chart1, 20)

InitRetry ==
    /\ results \in { {}, {StoredRecord} }
    /\ decoders = InitDecoders
    /\ progress = {}
    /\ now = 2
    /\ ncalls = 0
    /\ nruns = 0
    /\ last = NoRequest
    /\ jobTotals = [name \in {"Ada", "Bob"} |-> {}]
    /\ req = [r \in Slots |-> NoRequest]
    /\ job = [name \in {"Ada", "Bob"} |-> {}]
    /\ query = NoQuery
    /\ issued = <<>>

SpecRetry == InitRetry /\ [][LiveSubmit]_vars

\* ------------------------------------------------------------------------
\* Specification: update_archive requests of every kind over a ledger that
\* holds a record of each player and the snapshots of one job run
\* ------------------------------------------------------------------------
FrameResults == {StoredRecord, RankRow("Bob", Chart1, 30)}

InitFrame ==
    /\ results = FrameResults
    /\ decoders = InitDecoders
    /\ progress = NewSnapshots({}, FrameResults, "Ada", 2)
    /\ now = 6
    /\ ncalls = 0
    /\ nruns = 1
    /\ last = NoRequest
    /\ jobTotals = [name \in {"Ada", "Bob"} |->
                       IF name = "Ada" THEN {CurrentTotals(FrameResults, "Ada")} ELSE {}]
    /\ req = [r \in Slots |-> NoRequest]
    /\ job = [name \in {"Ada", "Bob"} |-> {}]
    /\ query = NoQuery
    /\ issued = <<>>

SpecFrame == InitFrame /\ [][Submit]_vars

\* ------------------------------------------------------------------------
\* Progress snapshots
\* ------------------------------------------------------------------------
SnapshotsOf(prog, name, label) == { g \in prog : g.decoder = name /\ g.line = label }

\* C11: no step modifies or removes a stored snapshot, and every snapshot a
\* step appends for a player and line label is recorded later than, and has a
\* total strictly above, every snapshot already stored for that player and
\* label: ordered by recorded_at, the totals never decrease.
C11_SnapshotsAppendOnlyAndGrow ==
    [][ /\ progress \subseteq progress'
        /\ \A new \in progress' \ progress :
              \A old \in SnapshotsOf(progress, new.decoder, new.line) :
                 /\ old.recorded_at < new.recorded_at
                 /\ old.total < new.total ]_vars

\* a label with two snapshots: the second was appended over the first
C11_Witness ==
    \E g, h \in progress :
        /\ g.decoder = h.decoder /\ g.line = h.line
        /\ g.recorded_at < h.recorded_at
        /\ g.total < h.total

LatestOf(rows) == { g \in rows : \A h \in rows : h.recorded_at <= g.recorded_at }

\* C12: one job run appends rows for one player only and, for each of the
\* four labels on its own, exactly one snapshot holding the current top-50
\* sum when the label has no snapshot yet or the sum strictly exceeds the
\* latest snapshot's total, and none otherwise; a run for a player whose sums
\* are those the player's previous run read appends nothing.
C12_RunAppendsExactlyWhatIsDue ==
    [][ nruns' = nruns + 1 =>
        /\ \E name \in {"Ada", "Bob"} :
              /\ \A g \in progress' \ progress : g.decoder = name
              /\ \A label \in {"4L", "4L+", "6L", "6L+"} :
                    LET old == SnapshotsOf(progress, name, label)
                        added == SnapshotsOf(progress', name, label) \ old
                        sum == get_top_50_patch_sum(results, name, LabelLine(label),
                                                    LabelIsPlus(label))
                        due == old = {} \/ \E g \in LatestOf(old) : g.total < sum
                    IN IF due
                       THEN Cardinality(added) = 1 /\ \A g \in added : g.total = sum
                       ELSE added = {}
        /\ \A name \in {"Ada", "Bob"} :
              jobTotals[name] = {CurrentTotals(results, name)} =>
                 \A g \in progress' \ progress : g.decoder # name ]_vars

\* two runs for Ada with a 4-line submission in between: the second run
\* appended for 4L and for no other label
C12_Witness ==
    /\ nruns = 2
    /\ \A g \in progress : g.decoder = "Ada"
    /\ Cardinality(SnapshotsOf(progress, "Ada", "4L")) = 2
    /\ Cardinality(SnapshotsOf(progress, "Ada", "4L+")) = 1
    /\ Cardinality(SnapshotsOf(progress, "Ada", "6L")) = 1
    /\ Cardinality(SnapshotsOf(progress, "Ada", "6L+")) = 1

MissedSums == {10, 20, 30, 40}

\* C13: when a run for a player has read a sum for a label and the player's
\* sum then stands at a higher value S that is also above the latest
\* snapshot total of that label (the run misses S), a snapshot of that label
\* with total at least S is eventually stored, the job being run for ever.
C13_MissedSumEventuallyRecorded ==
    \A name \in {"Ada", "Bob"}, label \in {"4L", "4L+", "6L", "6L+"}, S \in MissedSums :
        ( /\ job[name] # {}
          /\ \A t \in job[name] : t[label] < S
          /\ CurrentTotals(results, name)[label] = S
          /\ \A g \in LatestOf(SnapshotsOf(progress, name, label)) : g.total < S )
        ~> (\E g \in SnapshotsOf(progress, name, label) : g.total >= S)

\* ------------------------------------------------------------------------
\* Ranking queries
\* ------------------------------------------------------------------------
Matching(db, name, line, is_plus) ==
    { r \in db : /\ r.decoder = name
                 /\ r.line = line
                 /\ (r.difficulty = "PLUS") = is_plus }

RECURSIVE SumOfPatches(_)
SumOfPatches(S) ==
    IF S = {} THEN 0
    ELSE LET r == CHOOSE x \in S : TRUE IN r.patch + SumOfPatches(S \ {r})

RowsOf(seq) == { seq[i] : i \in 1..Len(seq) }

\* C14: the top-50 query returns, without repetition, only Results of the
\* asking player with the given line and PLUS / non-PLUS class, in
\* non-increasing patch order, min(50, number of matching Results) of them,
\* no left-out matching Result having a larger patch than a returned one;
\* and get_top_50_patch_sum is the sum of patch over the returned rows.
C14_Top50ResultsAndSum ==
    query.fn = "top" =>
        LET rows == query.rows
            matching == Matching(results, query.name, query.line, query.is_plus)
            n == Cardinality(matching)
        IN /\ RowsOf(rows) \subseteq matching
           /\ Cardinality(RowsOf(rows)) = Len(rows)
           /\ \A i \in 1..(Len(rows) - 1) : rows[i].patch >= rows[i + 1].patch
           /\ Len(rows) = IF n < 50 THEN n ELSE 50
           /\ \A out \in matching \ RowsOf(rows), r \in RowsOf(rows) : out.patch <= r.patch
           /\ query.total = SumOfPatches(RowsOf(rows))

\* more than 50 matching rows, 50 returned, among rows of other players, lines and
\* difficulty classes
C14_Witness ==
    /\ query.fn = "top"
    /\ Len(query.rows) = 50
    /\ Cardinality(Matching(results, query.name, query.line, query.is_plus)) > 50
    /\ \E r \in results : r.decoder = query.name /\ r.line = query.line
                            /\ (r.difficulty = "PLUS") # query.is_plus
    /\ \E r \in results : r.decoder # query.name
    /\ \E i \in 1..49 : query.rows[i].patch > query.rows[i + 1].patch

\* C15: the top-50 query asked again with the same arguments over unchanged
\* Results returns the same rows in the same order.
C15_RepeatedQuerySameOrder ==
    [][ ( /\ query.fn = "top" /\ query'.fn = "top"
          /\ query'.name = query.name
          /\ query'.line = query.line
          /\ query'.is_plus = query.is_plus
          /\ results' = results )
        => query'.rows = query.rows ]_vars

TierIndex(tier) == CHOOSE k \in 1..13 : DecoderEmblem[k] = tier

\* C16: calculate_emblem returns the top-50 patch sum and the k-th of the 13
\* tiers, k = min(13, floor(sum / 5000) + 1): a boundary value belongs to the
\* higher tier, and a larger sum never has a lower tier.
C16_EmblemTier ==
    /\ query.fn = "emblem" =>
          LET k == (query.total \div 5000) + 1
          IN /\ query.total = get_top_50_patch_sum(results, query.name, query.line,
                                                   query.is_plus)
             /\ query.emblem = DecoderEmblem[IF k < 13 THEN k ELSE 13]
    /\ \A a, b \in BoundaryTotals \cup {0, 70000} :
          a <= b => TierIndex(EmblemOf(a)) <= TierIndex(EmblemOf(b))

\* the sum 4999 + 1 sits on the first boundary and has the second tier
C16_Witness ==
    /\ query.fn = "emblem"
    /\ query.total = 5000
    /\ query.emblem = "nibble"
    /\ Cardinality(Matching(results, query.name, query.line, query.is_plus)) = 2

\* the catalog's patterns of a line and difficulty class
CatalogClass(line, is_plus) ==
    { ptn \in PlatinaPattern : ptn.line = line /\ (ptn.difficulty = "PLUS") = is_plus }

\* C17: for every player, line and difficulty class, get_status reports as
\* total_patterns the number of catalog Patterns of that line and class,
\* whoever the player is, and cleared_patterns never exceeds it.
C17_StatusCounts ==
    \A name \in {"Ada", "Bob"}, line \in {4, 6}, is_plus \in BOOLEAN :
        LET status == get_status(results, name, line, is_plus)
        IN /\ status.total_patterns = Cardinality(CatalogClass(line, is_plus))
           /\ status.cleared_patterns <= status.total_patterns

\* Ada has cleared two 4-line charts, Bob none
C17_Witness ==
    /\ get_status(results, "Ada", 4, FALSE).cleared_patterns = 2
    /\ get_status(results, "Bob", 4, FALSE).cleared_patterns = 0
    /\ ncalls = 2

\* ------------------------------------------------------------------------
\* Credentials
\* ------------------------------------------------------------------------
\* C18: load_by_key returns the player exactly when the key is name::secret
\* for a stored player whose digest matches; for every other key (unknown
\* player, no separator, more than one separator, wrong secret) it returns
\* none without raising, and update_archive answers 401.
C18_BadKeyReturnsNoneAnd401 ==
    last.pc = "done" =>
        LET auth == load_by_key(decoders, last.key)
        IN /\ KeyVerifies(last.key) <=> (~auth.raised /\ auth.decoder # {})
           /\ ~KeyVerifies(last.key) => (~auth.raised /\ last.status = 401)

\* the keys issued to a player, oldest first
IssuedTo(name) == SelectSeq(issued, LAMBDA e : e.name = name)

\* C19: of the keys issued to a player at registration and at logins, the
\* one issued last verifies to that player and no earlier one verifies.
C19_OnlyLatestKeyVerifies ==
    \A name \in AuthNames :
        LET keys == IssuedTo(name)
        IN \A i \in 1..Len(keys) :
              (AuthName(decoders, keys[i].key) = {name}) <=> (i = Len(keys))

\* C22: a registration on a taken name is refused and leaves the Decoders
\* table as it was; a registration on a free name adds exactly one player of
\* that name, and the key it returns verifies to that player; no two stored
\* players have the same name.
C22_RegisterCreatesVerifiablePlayer ==
    [][ last'.pc = "register" =>
          /\ \A name \in last'.decoder :
                IF GetDecoder(decoders, name) # {}
                THEN /\ last'.status = 400
                     /\ decoders' = decoders
                     /\ \A i \in 1..Len(issued) :
                           AuthName(decoders', issued[i].key)
                             = AuthName(decoders, issued[i].key)
                ELSE /\ last'.status = 200
                     /\ decoders \subseteq decoders'
                     /\ Cardinality(decoders' \ decoders) = 1
                     /\ \A d \in decoders' \ decoders : d.name = name
                     /\ ~load_by_key(decoders', last'.key).raised
                     /\ AuthName(decoders', last'.key) = {name}
          /\ \A d1, d2 \in decoders' : d1.name = d2.name => d1 = d2 ]_vars

\* ------------------------------------------------------------------------
\* Storage errors
\* ------------------------------------------------------------------------
\* this step is an update_archive request whose commit failed
FailedStep == ncalls' = ncalls + 1 /\ last'.status = 500 /\ last'.msg = "failed"

\* this step commits the submission whose commit failed in the step before
RetryStep ==
    /\ AcceptedStep
    /\ last.status = 500 /\ last.msg = "failed"
    /\ last'.key = last.key /\ last'.params = last.params

\* C20: a submission whose commit fails leaves every stored record as it was
\* before the call; the same submission retried and committed leaves the
\* chart's record as one committed submission made before the failure would:
\* current fields the submitted values, shadow fields the values stored
\* before the failed call (zero / false when there was no record), all other
\* records untouched.
C20_FailedCommitChangesNothing ==
    [][ /\ FailedStep => results' = results
        /\ RetryStep =>
              /\ Cardinality(RowsAfter) = 1
              /\ \A r \in RowsAfter :
                    /\ CurrentOf(r) = SubmittedOf(last.params)
                    /\ \A e \in last.existing : ShadowOf(r) = CurrentOf(e)
                    /\ last.existing = {} => ShadowOf(r) = <<0, 0, 0, FALSE, FALSE>>
              /\ results' \ RowsAfter = results \ RowsBefore ]_vars

\* over the stored record two calls reached update_or_make: the commit of
\* the first failed, the second committed, and the shadow fields are those
\* of the record stored before both
C20_Witness ==
    /\ last.status = 200
    /\ last.existing = {StoredRecord}
    /\ ncalls = 2
    /\ last.utc_now = 3
    /\ \E r \in results : /\ r.decoded_at = 3
                            /\ ShadowOf(r) = CurrentOf(StoredRecord)
                            /\ CurrentOf(r) # CurrentOf(StoredRecord)

\* ------------------------------------------------------------------------
\* Frame of a submission
\* ------------------------------------------------------------------------
\* the rows of db keyed by the request's player and chart
KeyedBy(db, rq) ==
    { r \in db : /\ r.decoder \in rq.decoder
                 /\ r.song_id = rq.params.song_id
                 /\ r.line = rq.params.line
                 /\ r.difficulty = rq.params.difficulty
                 /\ r.level = rq.params.level }

\* C21: an update_archive request changes at most the one Result keyed by
\* its player and chart: every other Result, of that player or of another,
\* and the Decoders and DecoderProgress tables are as before the call (the
\* catalog of songs and patterns is constant).
C21_SubmissionTouchesOneRecord ==
    [][ ncalls' = ncalls + 1 =>
          /\ results' \ KeyedBy(results', last') = results \ KeyedBy(results, last')
          /\ Cardinality(KeyedBy(results', last')) <= 1
          /\ decoders' = decoders
          /\ progress' = progress ]_vars

\* Ada's stored record was overwritten while a second record of Ada, the
\* record of Bob and the snapshots were in store
C21_Witness ==
    /\ last.status = 200
    /\ last.existing = {StoredRecord}
    /\ RankRow("Bob", Chart1, 30) \in results
    /\ \E r \in results : r.decoder = "Ada" /\ r.difficulty = "HARD"
    /\ StoredRecord \notin results
    /\ progress # {}

====
